---- MODULE Spec2Model ----
(***************************************************************************)
(* Model of simple-args-rs (src/src/lib.rs): Arguments::parse, the         *)
(* MultiMap<String, Option<String>> it builds, and the query methods.      *)
(* A string is a sequence of one-character strings; Option<T> is the       *)
(* tagged tuple <<"None">> or <<"Some", v>>.                               *)
(***************************************************************************)
EXTENDS Integers, Sequences, FiniteSets, TLC

VARIABLES args, i, arg_map, pc, visited, result

vars == <<args, i, arg_map, pc, visited, result>>

(* ---------------------------- bounds and inputs ------------------------ *)

\* Longest input slice handed to parse.
MaxArgs == 4

Dash == "-"

\* Input tokens: empty, dashes only, bare words, flags, a double-dash flag.
Tokens ==
    { <<>>, <<"-">>, <<"a">>, <<"b">>, <<"-", "a">>, <<"-", "-", "a">> }

\* Keys handed to the query methods: every name a token of Tokens can be
\* stored under, and one ("b") that is never a flag name.
QueryKeys ==
    { <<>>, <<"a">>, <<"-", "a">>, <<"b">> }

RECURSIVE SeqsUpTo(_, _)
SeqsUpTo(S, n) ==
    IF n = 0 THEN { <<>> }
    ELSE LET P == SeqsUpTo(S, n - 1)
         IN  P \cup { Append(s, x) : s \in { q \in P : Len(q) = n - 1 }, x \in S }

(* ------------------------------- Option<T> ----------------------------- *)

None == <<"None">>
Some(v) == <<"Some", v>>
is_some(o) == o[1] = "Some"
unwrap(o) == o[2]

(* ------------------------------ str helpers ---------------------------- *)

\* str::starts_with('-')
starts_with(s) == Len(s) > 0 /\ s[1] = Dash

\* str::is_empty
str_is_empty(s) == Len(s) = 0

RECURSIVE trim_start_matches(_)
trim_start_matches(s) ==
    IF starts_with(s) THEN trim_start_matches(Tail(s)) ELSE s

\* Mutant: every leading dash is stripped, not just one.
strip_prefix_all(s) ==
    IF starts_with(s) THEN Some(trim_start_matches(s)) ELSE None

\* key.strip_prefix('-')
strip_prefix(s) ==
    IF starts_with(s) THEN Some(Tail(s)) ELSE None

(* -------------------------------- MultiMap ----------------------------- *)

\* MultiMap::new()
multimap_new == [k \in {} |-> <<>>]

\* Mutant: HashMap-style insert, a later occurrence replaces the earlier.
multimap_insert_replace(m, k, v) ==
    [x \in DOMAIN m \cup {k} |-> IF x = k THEN <<v>> ELSE m[x]]

\* MultiMap::insert: push onto the key's vector, creating it when missing.
multimap_insert(m, k, v) ==
    [x \in DOMAIN m \cup {k} |->
        IF x = k
        THEN (IF k \in DOMAIN m THEN Append(m[k], v) ELSE <<v>>)
        ELSE m[x]]

\* MultiMap::contains_key
multimap_contains_key(m, k) == k \in DOMAIN m

\* Mutant: the last value of the key's vector.
multimap_get_last(m, k) ==
    IF k \in DOMAIN m THEN Some(m[k][Len(m[k])]) ELSE None

\* MultiMap::get: the first value of the key's vector.
multimap_get(m, k) ==
    IF k \in DOMAIN m THEN Some(m[k][1]) ELSE None

\* MultiMap::get_vec
multimap_get_vec(m, k) ==
    IF k \in DOMAIN m THEN Some(m[k]) ELSE None

RECURSIVE total_values(_, _)
total_values(m, ks) ==
    IF ks = {} THEN 0
    ELSE LET k == CHOOSE x \in ks : TRUE
         IN  Len(m[k]) + total_values(m, ks \ {k})

\* Mutant: counts the values, not the keys.
multimap_len_values(m) == total_values(m, DOMAIN m)

\* MultiMap::len: number of keys.
multimap_len(m) == Cardinality(DOMAIN m)

\* MultiMap::is_empty
multimap_is_empty(m) == DOMAIN m = {}

(* ------------------------------ Arguments::parse ----------------------- *)

\* The zip's second iterator: args.skip(1).chain(once("")) at 1-based step p.
lookahead(a, p) == IF p + 1 <= Len(a) THEN a[p + 1] ELSE <<>>

\* Mutant: only the empty string counts as no value.
flag_value_empty_only(val) ==
    IF str_is_empty(val) THEN None ELSE Some(val)

\* if val.is_empty() || val.starts_with('-') { None } else { Some(val) }
flag_value(val) ==
    IF str_is_empty(val) \/ starts_with(val) THEN None ELSE Some(val)

\* What the caller last asked and was told: <<method, key, returned value>>.
Answer(op, key, val) == <<op, key, val>>
answer_op(r) == r[1]
answer_key(r) == r[2]
answer_val(r) == r[3]

Init ==
    /\ args \in SeqsUpTo(Tokens, MaxArgs)
    /\ i = 0
    /\ arg_map = multimap_new
    /\ pc = "scan"
    /\ visited = <<>>
    /\ result = Answer("none", <<>>, FALSE)

\* Mutant: a flag consumes its lookahead token, the scan advances past it.
ParseStepConsume ==
    /\ pc = "scan"
    /\ i < Len(args)
    /\ LET key == args[i + 1]
           val == lookahead(args, i + 1)
           stripped == strip_prefix(key)
       IN  /\ arg_map' = IF is_some(stripped)
                         THEN multimap_insert(arg_map, unwrap(stripped), flag_value(val))
                         ELSE arg_map
           /\ i' = IF is_some(stripped) /\ i + 2 <= Len(args) THEN i + 2 ELSE i + 1
    /\ visited' = Append(visited, i)
    /\ UNCHANGED <<args, pc, result>>

\* One iteration of the for loop over the zipped (key, val) pairs.
ParseStep ==
    /\ pc = "scan"
    /\ i < Len(args)
    /\ LET key == args[i + 1]
           val == lookahead(args, i + 1)
           stripped == strip_prefix(key)
       IN  arg_map' = IF is_some(stripped)
                      THEN multimap_insert(arg_map, unwrap(stripped), flag_value(val))
                      ELSE arg_map
    /\ i' = i + 1
    /\ visited' = Append(visited, i)
    /\ UNCHANGED <<args, pc, result>>

\* Mutant: the second iterator lacks the chained "", the zip ends one early.
ParseReturnShort ==
    /\ pc = "scan"
    /\ i >= Len(args) - 1
    /\ pc' = "returned"
    /\ UNCHANGED <<args, i, arg_map, visited, result>>

\* The zip is exhausted: Arguments { arg_map } is returned.
ParseReturn ==
    /\ pc = "scan"
    /\ i = Len(args)
    /\ pc' = "returned"
    /\ UNCHANGED <<args, i, arg_map, visited, result>>

(* ------------------------------ query methods -------------------------- *)

contains(key) == multimap_contains_key(arg_map, key)

contains_val(key) ==
    LET vals == multimap_get_vec(arg_map, key)
    IN  IF vals = None THEN FALSE
        ELSE \E j \in 1..Len(unwrap(vals)) : is_some(unwrap(vals)[j])

is_empty == multimap_is_empty(arg_map)

\* Some(Some(self.arg_map.get(key)?.as_ref()?)): each ? returns None.
get(key) ==
    LET first == multimap_get(arg_map, key)
    IN  IF first = None THEN None
        ELSE IF unwrap(first) = None THEN None
        ELSE Some(Some(unwrap(unwrap(first))))

get_vec(key) == multimap_get_vec(arg_map, key)

len == multimap_len(arg_map)


ContainsQuery(key) ==
    /\ pc = "returned"
    /\ result' = Answer("contains", key, contains(key))
    /\ UNCHANGED <<args, i, arg_map, pc, visited>>

ContainsValQuery(key) ==
    /\ pc = "returned"
    /\ result' = Answer("contains_val", key, contains_val(key))
    /\ UNCHANGED <<args, i, arg_map, pc, visited>>

IsEmptyQuery ==
    /\ pc = "returned"
    /\ result' = Answer("is_empty", <<>>, is_empty)
    /\ UNCHANGED <<args, i, arg_map, pc, visited>>

GetQuery(key) ==
    /\ pc = "returned"
    /\ result' = Answer("get", key, get(key))
    /\ UNCHANGED <<args, i, arg_map, pc, visited>>

\* Mutant: the lookup takes the key's vector out of the map.
GetVecQueryTake(key) ==
    /\ pc = "returned"
    /\ result' = Answer("get_vec", key, get_vec(key))
    /\ arg_map' = [x \in DOMAIN arg_map \ {key} |-> arg_map[x]]
    /\ UNCHANGED <<args, i, pc, visited>>

GetVecQuery(key) ==
    /\ pc = "returned"
    /\ result' = Answer("get_vec", key, get_vec(key))
    /\ UNCHANGED <<args, i, arg_map, pc, visited>>

LenQuery ==
    /\ pc = "returned"
    /\ result' = Answer("len", <<>>, len)
    /\ UNCHANGED <<args, i, arg_map, pc, visited>>

Next ==
    \/ ParseStep
    \/ ParseReturn
    \/ \E key \in QueryKeys : ContainsQuery(key)
    \/ \E key \in QueryKeys : ContainsValQuery(key)
    \/ IsEmptyQuery
    \/ \E key \in QueryKeys : GetQuery(key)
    \/ \E key \in QueryKeys : GetVecQuery(key)
    \/ LenQuery

Spec == Init /\ [][Next]_vars

\* parse is one synchronous call: its loop runs to the return.
FairSpec == Spec /\ WF_vars(ParseStep) /\ WF_vars(ParseReturn)

(* ------------------- what the input says, read off args ---------------- *)

\* The token that names flag `key`: '-' followed by key.
FlagToken(key) == <<Dash>> \o key

\* Token at position p begins with '-'.
IsFlagAt(p) == args[p] # <<>> /\ Head(args[p]) = Dash

\* Positions of the input tokens equal to '-' followed by key.
OccPositions(key) == { p \in 1..Len(args) : args[p] = FlagToken(key) }

Min(S) == CHOOSE x \in S : \A y \in S : x <= y

\* The value the parsing rule gives the flag at position p.
ExpectedValue(p) ==
    IF p + 1 > Len(args) THEN None
    ELSE IF args[p + 1] = <<>> THEN None
    ELSE IF Head(args[p + 1]) = Dash THEN None
    ELSE Some(args[p + 1])

RECURSIVE ValuesInOrder(_)
ValuesInOrder(S) ==
    IF S = {} THEN <<>>
    ELSE <<ExpectedValue(Min(S))>> \o ValuesInOrder(S \ {Min(S)})

NotFound == None
FoundAbsent == Some(None)
FoundPresent(v) == Some(Some(v))

(* --------------------------------- C1 ---------------------------------- *)

\* C1: get(key) is NotFound iff no input token equals '-' followed by key,
\* i.e. get(key) is found exactly when contains(key); and when the key's
\* first occurrence is Absent, get(key) is FoundAbsent, never NotFound.
C1_GetTriState ==
    pc = "returned" =>
        \A key \in QueryKeys :
            /\ (get(key) = NotFound) <=> (OccPositions(key) = {})
            /\ is_some(get(key)) <=> contains(key)
            /\ (contains(key) /\ unwrap(get_vec(key))[1] = None)
                   => get(key) = FoundAbsent

(* --------------------------------- C2 ---------------------------------- *)

\* C2: the value recorded for the flag token at position p is Absent when
\* p+1 is past the end, or the next token is empty or starts with '-';
\* otherwise it is Present(next token), copied unchanged.
C2_ValueRule ==
    [][(pc = "scan" /\ i < Len(args) /\ IsFlagAt(i + 1)) =>
          LET name == Tail(args[i + 1])
          IN  /\ name \in DOMAIN arg_map'
              /\ arg_map'[name][Len(arg_map'[name])] = ExpectedValue(i + 1)]_vars

\* A flag followed by a dash token was recorded Absent, and a flag followed
\* by a bare token was recorded Present.
C2_Witness ==
    /\ pc = "returned"
    /\ \E p \in 1..(Len(args) - 1) :
          /\ IsFlagAt(p) /\ IsFlagAt(p + 1)
          /\ \E j \in 1..Len(arg_map[Tail(args[p])]) :
                arg_map[Tail(args[p])][j] = None
    /\ \E p \in 1..(Len(args) - 1) :
          /\ IsFlagAt(p) /\ ~IsFlagAt(p + 1) /\ args[p + 1] # <<>>
          /\ \E j \in 1..Len(arg_map[Tail(args[p])]) :
                arg_map[Tail(args[p])][j] = Some(args[p + 1])

(* --------------------------------- C3 ---------------------------------- *)

\* C3: get_vec(key) is None when no token equals '-' followed by key;
\* otherwise it is the non-empty sequence of the values of the key's
\* occurrences in input order, one entry per occurrence.
C3_GetVecOrder ==
    pc = "returned" =>
        /\ DOMAIN arg_map \subseteq QueryKeys
        /\ \A key \in QueryKeys :
              get_vec(key) = IF OccPositions(key) = {} THEN None
                             ELSE Some(ValuesInOrder(OccPositions(key)))

\* A key with two occurrences holding different values.
C3_Witness ==
    /\ pc = "returned"
    /\ \E key \in QueryKeys :
          /\ is_some(get_vec(key))
          /\ Len(unwrap(get_vec(key))) >= 2
          /\ unwrap(get_vec(key))[1] # unwrap(get_vec(key))[2]

(* --------------------------------- C4 ---------------------------------- *)

C5_TotalOccurrences ==
    /\ i <= Len(args)
    /\ total_values(arg_map, DOMAIN arg_map)
          = Cardinality({ p \in 1..i : IsFlagAt(p) })
    /\ pc = "returned" => i = Len(args)

\* Two adjacent flags both produced an occurrence, and a bare token taken
\* as a value produced none.
C5_Witness ==
    /\ pc = "returned"
    /\ \E p \in 1..(Len(args) - 1) : IsFlagAt(p) /\ IsFlagAt(p + 1)
    /\ \E p \in 1..(Len(args) - 1) :
          IsFlagAt(p) /\ ~IsFlagAt(p + 1) /\ args[p + 1] # <<>>
    /\ total_values(arg_map, DOMAIN arg_map) = 3

(* --------------------------------- C6 ---------------------------------- *)

\* C6: len() is the number of distinct flag names in the input, is_empty()
\* holds iff len() is 0, which is iff no input token starts with '-'.
C6_LenDistinct ==
    pc = "returned" =>
        /\ len = Cardinality({ key \in QueryKeys : OccPositions(key) # {} })
        /\ is_empty <=> (len = 0)
        /\ (len = 0) <=> (\A p \in 1..Len(args) : ~IsFlagAt(p))

\* One flag name occurring more than once next to another name.
C6_Witness ==
    /\ pc = "returned"
    /\ len = 2
    /\ Cardinality({ p \in 1..Len(args) : IsFlagAt(p) }) = 3
    /\ ~is_empty

(* --------------------------------- C7 ---------------------------------- *)

\* C7: contains(key) iff the key has an occurrence; contains_val(key) iff
\* some occurrence of it is Present; contains_val implies contains; and
\* where contains_val holds over an Absent first occurrence, get(key)
\* reports that Absent first occurrence.
C7_ContainsVal ==
    pc = "returned" =>
        \A key \in QueryKeys :
            /\ contains(key) <=> (OccPositions(key) # {})
            /\ contains_val(key)
                  <=> (\E p \in OccPositions(key) : is_some(ExpectedValue(p)))
            /\ contains_val(key) => contains(key)
            /\ (contains_val(key)
                  /\ ExpectedValue(Min(OccPositions(key))) = None)
                      => get(key) = FoundAbsent

(* --------------------------------- C8 ---------------------------------- *)

\* C8: the names stored in the index are exactly the dash tokens scanned so
\* far with one leading '-' removed: a name is a key iff '-' followed by
\* that name is a scanned token.
C8_OneDashStripped ==
    DOMAIN arg_map
        = { key \in QueryKeys : \E p \in OccPositions(key) : p <= i }

\* '--a' stored as '-a', '-' stored as the empty name, a bare token dropped.
C8_Witness ==
    /\ pc = "returned"
    /\ <<"-", "a">> \in DOMAIN arg_map
    /\ <<>> \in DOMAIN arg_map
    /\ <<"a">> \notin DOMAIN arg_map
    /\ \E p \in 1..Len(args) : args[p] = <<"a">>

(* --------------------------------- C9 ---------------------------------- *)

\* C9: parse always returns, and when it does the scan has visited the
\* positions 0..n-1 once each in increasing order, in exactly n steps.
C9_ParseCompletes ==
    /\ <>(pc = "returned")
    /\ [](pc = "returned" =>
            /\ Len(visited) = Len(args)
            /\ \A k \in 1..Len(visited) : visited[k] = k - 1)

\* A full-length input with an empty token and a dashes-only token.
C9_Witness ==
    /\ pc = "returned"
    /\ Len(args) = MaxArgs
    /\ \E p \in 1..Len(args) : args[p] = <<>>
    /\ \E p \in 1..Len(args) : args[p] = <<"-">>
    /\ Len(visited) = MaxArgs

(* --------------------------------- C10 --------------------------------- *)

\* C10: once parse has returned, no query changes the index or the input,
\* and repeating a query gives the same answer.
C10_QueryPurity ==
    [][pc = "returned" =>
          /\ arg_map' = arg_map
          /\ args' = args
          /\ (answer_op(result') = answer_op(result)
                /\ answer_key(result') = answer_key(result))
                => answer_val(result') = answer_val(result)]_vars

\* A get_vec query answered with two values on a two-key index.
C10_Witness ==
    /\ pc = "returned"
    /\ answer_op(result) = "get_vec"
    /\ is_some(answer_val(result))
    /\ Len(unwrap(answer_val(result))) = 2
    /\ Cardinality(DOMAIN arg_map) = 2

====
